---- MODULE Spec2Model ----
(***************************************************************************)
(* Location telemetry pipeline of onde_esta_heric_trans.                   *)
(*                                                                         *)
(* Foreground: the LocationManager singleton of                            *)
(* src/src/services/LocationManager.js (in-memory queue, IndexedDB         *)
(* snapshot under key 'queue', processQueue drain, network listeners).     *)
(* Background: the 'sync' listener of src/service-worker.js.               *)
(* Position source: the GeolocationService singleton of                    *)
(* src/src/services/authService.js (position watch, heartbeat timer).      *)
(*                                                                         *)
(* Every await of the JavaScript source is a suspension point: an async    *)
(* method is split into one action per stretch of code that runs without   *)
(* yielding.  Records are identified by the order of their addLocation     *)
(* call (1, 2, ...).                                                       *)
(***************************************************************************)
EXTENDS Naturals, Sequences, FiniteSets

VARIABLES
    \* ---- foreground page: LocationManager fields -------------------------
    pageOpen,      \* the page (and with it the LocationManager) exists
    queue,         \* this.queue: sequence of record ids
    isProcessing,  \* this.isProcessing
    retryCount,    \* this.retryCount
    isOnline,      \* this.isOnline
    dbOpen,        \* this.db is set (initDB resolved successfully)
    \* ---- foreground page: suspended async calls --------------------------
    adds,          \* addLocation calls awaiting saveToIndexedDB
    drains,        \* processQueue loops between their start and their end
    clearing,      \* number of clearQueue calls awaiting their db.put
    intervalId,    \* this.intervalId is set: the periodic timer is running
    \* ---- outside the page -------------------------------------------------
    net,           \* navigator.onLine: real connectivity
    store,         \* IndexedDB 'locations' / 'queue': the durable snapshot
    syncReg,       \* a 'location-sync' registration is pending at the host
    workerSent,    \* record ids the worker handed to fetch, in order
    \* ---- foreground page: GeolocationService fields -----------------------
    isTracking,    \* this.isTracking
    watchId,       \* this.watchId is set: the position watch is registered
    forcedUpdateInterval,  \* this.forcedUpdateInterval is set: the heartbeat
                   \* timer is running
    lastLocation,  \* this.lastLocation: <<>> for null, else <<location>>
    now,           \* Date.now(), in units of this.updateInterval
    watches,       \* position watches registered with the platform and not
                   \* cleared
    timers,        \* heartbeat interval timers set and not cleared
    updateInterval,  \* this.updateInterval of the GeolocationService (ms)
    \* ---- foreground page: Transmitter component --------------------------
    uiTracking,    \* the component's state isTracking, as of the last render
    hasPermission, \* the component's state hasPermission
    restarts,      \* pending timeouts of restartTracking: the values of
                   \* isTracking and hasPermission their callback closes over
    provider,      \* what the position provider reported last to the watch:
                   \* "ok" (a fix, or nothing yet) or the kind of error;
                   \* after "denied" it has no fix until permission is back
    \* ---- history (not program state) --------------------------------------
    nextId,        \* id of the next record to be enqueued
    attempts,      \* per record enqueued so far: sends started for it while
                   \* it is held in memory (0 once it has left memory)
    delivered,     \* record ids in the order the sink accepted them
    turnedAway,    \* during the running drain, a processQueue call returned
                   \* only because isProcessing was set
    sessions,      \* number of LocationManager instances constructed so far
    recs,          \* per record enqueued so far: the object addLocation built
    waited,        \* backoff delays (ms) the running drain has started
    fixes          \* number of handlePosition calls so far

fgVars  == <<pageOpen, queue, isProcessing, retryCount, isOnline, dbOpen,
             adds, drains, clearing>>
envVars == <<net, store, syncReg, workerSent>>
histVars == <<nextId, attempts, delivered, turnedAway, sessions, recs,
              waited>>
uiVars == <<uiTracking, hasPermission, restarts>>
geoVars == <<isTracking, watchId, forcedUpdateInterval, lastLocation, now,
             fixes, intervalId, provider, watches, timers, updateInterval,
             uiVars>>
vars == <<fgVars, envVars, histVars, geoVars>>

---------------------------------------------------------------------------
\* Bounds of the model
MaxRecords  == 2      \* addLocation calls explored by Spec
MaxSessions == 2      \* page loads explored
MaxClearing == 1      \* clearQueue calls suspended at the same time
MaxOver     == 1      \* records enqueued beyond Capacity in SpecOffline
MaxOverlap  == 3      \* addLocation calls explored by SpecOverlap
MaxFixes    == 2      \* position updates explored by SpecGeo
MaxTicks    == 2      \* heartbeat ticks explored by SpecGeo

\* Program constants
MaxRetries == 3       \* this.maxRetries
Capacity   == 100     \* records kept by saveToIndexedDB
MovementThreshold == 10   \* this.movementThreshold, metres

\* Coordinates a fix can carry: points of one meridian, named by their
\* distance in metres from the first
Positions == {0, 5, 20}

Ids == 1..(Capacity + MaxOver + MaxRecords)   \* record ids in use

Range(s) == {s[i] : i \in 1..Len(s)}

\* getQueueLength (lines 169-171)
GetQueueLength == Len(queue)

---------------------------------------------------------------------------
\* saveToIndexedDB, lines 68-73: append, then keep the last 100 entries
SavedSnapshot(snap, loc) ==
    LET q == Append(snap, loc)
    IN  IF Len(q) > Capacity
        THEN SubSeq(q, Len(q) - Capacity + 1, Len(q))
        ELSE q

\* (variant of ProcessQueueReturns that does not test isProcessing)
ProcessQueueReturnsNoFlag(proc, q, online) == Len(q) = 0 \/ ~online

\* processQueue, line 82: the early return
ProcessQueueReturns(proc, q, online) == proc \/ Len(q) = 0 \/ ~online

\* (variant of RetryAllowed that allows one retry only)
RetryAllowedOnce(rc) == rc < 1

\* processQueue, line 92: a failed record is put back and retried
RetryAllowed(rc) == rc < MaxRetries

\* (variant of BackoffDelay that shrinks with the failure count)
BackoffDelayShrinking(rc) == 2 ^ (MaxRetries - rc) * 1000

\* processQueue, line 95: Math.pow(2, this.retryCount) * 1000, in ms, with
\* rc = this.retryCount after the increment of line 94
BackoffDelay(rc) == 2 ^ rc * 1000

\* (variant of Requeued that puts the failed record at the tail)
RequeuedAtTail(q, loc) == Append(q, loc)

\* processQueue, line 93: this.queue.unshift(location)
Requeued(q, loc) == <<loc>> \o q

\* Where a processQueue loop is suspended, and on which record: awaiting
\* sendLocation (line 90), the backoff delay (line 95), or the db.get /
\* db.put of saveToIndexedDB for a given-up record (line 98).
Sending(loc)    == [loc |-> loc, pc |-> "send",     snap |-> <<>>]
Delaying(loc)   == [loc |-> loc, pc |-> "delay",    snap |-> <<>>]
SaveGet(loc)    == [loc |-> loc, pc |-> "save_get", snap |-> <<>>]
SavePutting(loc, snap) == [loc |-> loc, pc |-> "save_put", snap |-> snap]

\* A call of processQueue() (lines 81-90, up to the first await) with the
\* fields as they are at the call: q = this.queue, online = this.isOnline,
\* ds = the loops already running, att = the attempt counts.
ProcessQueue(q, online, ds, att) ==
    IF ProcessQueueReturns(isProcessing, q, online)
    THEN /\ queue' = q
         /\ isProcessing' = isProcessing
         /\ drains' = ds
         /\ attempts' = att
         /\ turnedAway' = (turnedAway \/
                             (isProcessing /\ Len(q) > 0 /\ online))
    ELSE /\ queue' = Tail(q)
         /\ isProcessing' = TRUE
         /\ drains' = ds \cup {Sending(Head(q))}
         /\ attempts' = [att EXCEPT ![Head(q)] = @ + 1]
         /\ turnedAway' = turnedAway

\* (variant of LoopOrFinish that clears the failure counter before every
\* iteration)
LoopOrFinishForgetting(q, rc, ds, att) ==
    IF Len(q) > 0
    THEN /\ queue' = Tail(q)
         /\ drains' = ds \cup {Sending(Head(q))}
         /\ isProcessing' = isProcessing
         /\ retryCount' = 0
         /\ attempts' = [att EXCEPT ![Head(q)] = @ + 1]
         /\ turnedAway' = turnedAway
         /\ waited' = waited
    ELSE /\ queue' = q
         /\ drains' = ds
         /\ isProcessing' = FALSE
         /\ retryCount' = 0
         /\ attempts' = att
         /\ turnedAway' = FALSE
         /\ waited' = <<>>

\* The while test of processQueue (line 88) after an iteration, then either
\* lines 89-90 of the next iteration or the two assignments after the loop
\* (lines 102-103).  rc = this.retryCount now.
LoopOrFinish(q, rc, ds, att) ==
    IF Len(q) > 0
    THEN /\ queue' = Tail(q)
         /\ drains' = ds \cup {Sending(Head(q))}
         /\ isProcessing' = isProcessing
         /\ retryCount' = rc
         /\ attempts' = [att EXCEPT ![Head(q)] = @ + 1]
         /\ turnedAway' = turnedAway
         /\ waited' = waited
    ELSE /\ queue' = q
         /\ drains' = ds
         /\ isProcessing' = FALSE
         /\ retryCount' = 0
         /\ attempts' = att
         /\ turnedAway' = FALSE
         /\ waited' = <<>>

---------------------------------------------------------------------------
\* constructor (lines 5-16) on the first page load
\* authService.js, constructor line 86: this.updateInterval = 5000
DefaultUpdateInterval == 5000

\* the periods setUpdateInterval is called with
Intervals == {5000, 10000}

Init ==
    /\ pageOpen = TRUE
    /\ queue = <<>>
    /\ isProcessing = FALSE
    /\ retryCount = 0
    /\ net \in BOOLEAN
    /\ isOnline = net
    /\ dbOpen = FALSE
    /\ adds = {}
    /\ drains = {}
    /\ clearing = 0
    /\ store = <<>>
    /\ syncReg = FALSE
    /\ workerSent = <<>>
    /\ nextId = 1
    /\ attempts = <<>>
    /\ delivered = <<>>
    /\ turnedAway = FALSE
    /\ sessions = 1
    /\ recs = <<>>
    /\ waited = <<>>
    /\ fixes = 0
    \* authService.js, constructor (lines 73-87)
    /\ isTracking = FALSE
    /\ intervalId = FALSE
    /\ watchId = FALSE
    /\ forcedUpdateInterval = FALSE
    /\ watches = 0
    /\ timers = 0
    /\ updateInterval = DefaultUpdateInterval
    \* Transmitter/index.js, useState (lines 11, 14)
    /\ uiTracking = FALSE
    /\ hasPermission = FALSE
    /\ restarts = {}
    /\ lastLocation = <<>>
    /\ now = 0
    /\ provider = "ok"

---------------------------------------------------------------------------
\* initDB (lines 18-28) resolves: this.db is set.  When openDB rejects, the
\* catch only logs and this.db stays unset: that is this action never firing.
InitDB ==
    /\ pageOpen /\ ~dbOpen
    /\ dbOpen' = TRUE
    /\ UNCHANGED <<pageOpen, queue, isProcessing, retryCount, isOnline,
                   adds, drains, clearing, envVars, histVars, geoVars>>

\* (variant of ScheduleBackgroundSync that registers nothing)
ScheduleBackgroundSyncSkipped == syncReg' = syncReg

\* scheduleBackgroundSync (lines 131-137)
ScheduleBackgroundSync == syncReg' = TRUE

\* addLocation lines 54-60, run once saveToIndexedDB has resolved
AfterSave(q, as, att) ==
    /\ adds' = as
    /\ IF isOnline
       THEN /\ ProcessQueue(q, isOnline, drains, att)
            /\ UNCHANGED syncReg
       ELSE /\ ScheduleBackgroundSync
            /\ queue' = q
            /\ attempts' = att
            /\ UNCHANGED <<isProcessing, drains, turnedAway>>

\* addLocation (lines 41-52) up to its await.  With this.db unset
\* saveToIndexedDB returns at line 65 and the rest of addLocation follows in
\* the same task; otherwise the call is suspended on db.get (line 67).
\* `location` is the caller's object, t is Date.now() at line 44.
AddSample(limit, location, t) ==
    /\ pageOpen /\ nextId <= limit
    /\ nextId' = nextId + 1
    /\ recs' = Append(recs, [location EXCEPT !.ts = t])
    /\ IF dbOpen
       THEN /\ queue' = Append(queue, nextId)
            /\ adds' = adds \cup {[id |-> nextId, pc |-> "get",
                                   snap |-> <<>>]}
            /\ attempts' = Append(attempts, 0)
            /\ UNCHANGED <<isProcessing, drains, syncReg, turnedAway>>
       ELSE AfterSave(Append(queue, nextId), adds, Append(attempts, 0))
    /\ UNCHANGED <<pageOpen, retryCount, isOnline, dbOpen, clearing, net,
                   store, workerSent, delivered, sessions, waited>>

\* the object of a caller other than the GeolocationService
SomeLocation == [pos |-> 0, ts |-> 0, forced |-> FALSE]

\* addLocation called with the GeolocationService left as it is
AddLocation(limit) ==
    /\ AddSample(limit, SomeLocation, now)
    /\ UNCHANGED geoVars

\* saveToIndexedDB line 67: db.get resolves with the snapshot
SaveRead ==
    \E a \in adds :
        /\ a.pc = "get"
        /\ adds' = (adds \ {a}) \cup {[a EXCEPT !.pc = "put",
                                                  !.snap = store]}
        /\ UNCHANGED <<pageOpen, queue, isProcessing, retryCount, isOnline,
                       dbOpen, drains, clearing, envVars, histVars,
                       geoVars>>

\* saveToIndexedDB lines 68-75: db.put of the extended snapshot resolves,
\* then addLocation lines 54-60
SaveWrite ==
    \E a \in adds :
        /\ a.pc = "put"
        /\ store' = SavedSnapshot(a.snap, a.id)
        /\ AfterSave(queue, adds \ {a}, attempts)
        /\ UNCHANGED <<pageOpen, retryCount, isOnline, dbOpen, clearing,
                       net, workerSent, nextId, delivered, sessions, recs,
                       waited, geoVars>>

\* (variant of SaveThrows in which the rejection reaches addLocation: the
\* lines after its await are not run)
SaveThrowsRejects ==
    \E a \in adds :
        /\ adds' = adds \ {a}
        /\ UNCHANGED <<pageOpen, queue, isProcessing, retryCount, isOnline,
                       dbOpen, drains, clearing, envVars, histVars,
                       geoVars>>

\* saveToIndexedDB: db.get (line 67) or db.put (line 75) rejects; the catch
\* of lines 76-78 logs and the call resolves, then addLocation lines 54-60
SaveThrows ==
    \E a \in adds :
        /\ AfterSave(queue, adds \ {a}, attempts)
        /\ UNCHANGED <<pageOpen, retryCount, isOnline, dbOpen, clearing,
                       net, store, workerSent, nextId, delivered, sessions,
                       recs, waited, geoVars>>

---------------------------------------------------------------------------
\* sendLocation (lines 106-129) resolves with `ok`, then processQueue
\* lines 92-100 and the loop test.  The sink accepts only with connectivity.
SendDone ==
    \E d \in drains, ok \in BOOLEAN :
        /\ d.pc = "send"
        /\ ok => net
        /\ delivered' = IF ok THEN Append(delivered, d.loc) ELSE delivered
        /\ IF ok
           THEN LoopOrFinish(queue, retryCount, drains \ {d},
                             [attempts EXCEPT ![d.loc] = 0])
           ELSE IF RetryAllowed(retryCount)
           THEN /\ queue' = Requeued(queue, d.loc)
                /\ retryCount' = retryCount + 1
                /\ drains' = (drains \ {d}) \cup {Delaying(d.loc)}
                /\ waited' = Append(waited, BackoffDelay(retryCount + 1))
                /\ UNCHANGED <<isProcessing, attempts, turnedAway>>
           ELSE IF dbOpen
           THEN /\ drains' = (drains \ {d}) \cup {SaveGet(d.loc)}
                /\ attempts' = [attempts EXCEPT ![d.loc] = 0]
                /\ UNCHANGED <<queue, retryCount, isProcessing, turnedAway,
                               waited>>
           ELSE LoopOrFinish(queue, retryCount, drains \ {d},
                             [attempts EXCEPT ![d.loc] = 0])
        /\ UNCHANGED <<pageOpen, isOnline, dbOpen, adds, clearing, envVars,
                       nextId, sessions, recs, geoVars>>

\* (variant of DelayDone in which the awaited delay rejects and the
\* exception leaves processQueue before lines 102-103)
DelayDoneThrows ==
    \E d \in drains :
        /\ d.pc = "delay"
        /\ drains' = drains \ {d}
        /\ UNCHANGED <<pageOpen, queue, isProcessing, retryCount, isOnline,
                       dbOpen, adds, clearing, envVars, histVars, geoVars>>

\* the backoff delay of line 95 elapses
DelayDone ==
    \E d \in drains :
        /\ d.pc = "delay"
        /\ LoopOrFinish(queue, retryCount, drains \ {d}, attempts)
        /\ UNCHANGED <<pageOpen, isOnline, dbOpen, adds, clearing, envVars,
                       nextId, delivered, sessions, recs, geoVars>>

\* line 98: saveToIndexedDB(location) of the given-up record, db.get resolves
DrainSaveRead ==
    \E d \in drains :
        /\ d.pc = "save_get"
        /\ drains' = (drains \ {d}) \cup {SavePutting(d.loc, store)}
        /\ UNCHANGED <<pageOpen, queue, isProcessing, retryCount, isOnline,
                       dbOpen, adds, clearing, envVars, histVars, geoVars>>

\* line 98: its db.put resolves, then the loop test
DrainSaveWrite ==
    \E d \in drains :
        /\ d.pc = "save_put"
        /\ store' = SavedSnapshot(d.snap, d.loc)
        /\ LoopOrFinish(queue, retryCount, drains \ {d}, attempts)
        /\ UNCHANGED <<pageOpen, isOnline, dbOpen, adds, clearing, net,
                       syncReg, workerSent, nextId, delivered, sessions,
                       recs, geoVars>>

---------------------------------------------------------------------------
\* line 98: the db.get or db.put of that saveToIndexedDB rejects; its catch
\* (lines 76-78) logs, then the loop test
DrainSaveThrows ==
    \E d \in drains :
        /\ d.pc \in {"save_get", "save_put"}
        /\ LoopOrFinish(queue, retryCount, drains \ {d}, attempts)
        /\ UNCHANGED <<pageOpen, isOnline, dbOpen, adds, clearing, envVars,
                       nextId, delivered, sessions, recs, geoVars>>

---------------------------------------------------------------------------
\* (variant of OnlineEvent whose listener only sets the flag)
OnlineEventFlagOnly ==
    /\ ~net
    /\ net' = TRUE
    /\ isOnline' = IF pageOpen THEN TRUE ELSE isOnline
    /\ UNCHANGED <<pageOpen, queue, isProcessing, retryCount, dbOpen, adds,
                   drains, clearing, store, syncReg, workerSent, histVars,
                   geoVars>>

\* 'online' event (lines 31-34); the page sees it only while it is open
OnlineEvent ==
    /\ ~net
    /\ net' = TRUE
    /\ IF pageOpen
       THEN /\ isOnline' = TRUE
            /\ ProcessQueue(queue, TRUE, drains, attempts)
       ELSE UNCHANGED <<isOnline, queue, isProcessing, drains, attempts,
                        turnedAway>>
    /\ UNCHANGED <<pageOpen, retryCount, dbOpen, adds, clearing, store,
                   syncReg, workerSent, nextId, delivered, sessions, recs,
                   waited, geoVars>>

\* 'offline' event (lines 36-38)
OfflineEvent ==
    /\ net
    /\ net' = FALSE
    /\ isOnline' = FALSE
    /\ UNCHANGED <<pageOpen, queue, isProcessing, retryCount, dbOpen, adds,
                   drains, clearing, store, syncReg, workerSent, histVars,
                   geoVars>>

\* the periodic timer fires: the setInterval callback of
\* startPeriodicUpdates (lines 144-148)
Tick ==
    /\ pageOpen
    /\ intervalId
    /\ isOnline
    /\ ProcessQueue(queue, isOnline, drains, attempts)
    /\ UNCHANGED <<pageOpen, retryCount, isOnline, dbOpen, adds, clearing,
                   envVars, nextId, delivered, sessions, recs, waited,
                   geoVars>>

---------------------------------------------------------------------------
\* clearQueue (lines 162-167) up to its await
ClearQueue ==
    /\ pageOpen /\ clearing < MaxClearing
    /\ queue' = <<>>
    /\ attempts' = [r \in DOMAIN attempts |->
                       IF r \in Range(queue) THEN 0 ELSE attempts[r]]
    /\ clearing' = IF dbOpen THEN clearing + 1 ELSE clearing
    /\ UNCHANGED <<pageOpen, isProcessing, retryCount, isOnline, dbOpen,
                   adds, drains, envVars, nextId, delivered, turnedAway,
                   sessions, recs, waited, geoVars>>

\* clearQueue line 165: db.put of the empty snapshot resolves
ClearWrite ==
    /\ clearing > 0
    /\ clearing' = clearing - 1
    /\ store' = <<>>
    /\ UNCHANGED <<pageOpen, queue, isProcessing, retryCount, isOnline,
                   dbOpen, adds, drains, net, syncReg, workerSent, histVars,
                   geoVars>>

---------------------------------------------------------------------------
\* The page is closed: the LocationManager, the GeolocationService, their
\* timers and every suspended call are gone; the store and the host's sync
\* registration remain.
ClosePage ==
    /\ pageOpen
    /\ pageOpen' = FALSE
    /\ queue' = <<>>
    /\ isProcessing' = FALSE
    /\ retryCount' = 0
    /\ isOnline' = FALSE
    /\ dbOpen' = FALSE
    /\ adds' = {}
    /\ drains' = {}
    /\ clearing' = 0
    /\ attempts' = [r \in DOMAIN attempts |-> 0]
    /\ turnedAway' = FALSE
    /\ waited' = <<>>
    /\ isTracking' = FALSE
    /\ watchId' = FALSE
    /\ forcedUpdateInterval' = FALSE
    /\ watches' = 0
    /\ timers' = 0
    /\ updateInterval' = DefaultUpdateInterval
    /\ uiTracking' = FALSE
    /\ hasPermission' = FALSE
    /\ restarts' = {}
    /\ lastLocation' = <<>>
    /\ intervalId' = FALSE
    /\ UNCHANGED <<envVars, nextId, delivered, sessions, recs, now, fixes,
                   provider>>

\* The page is loaded again: constructor (lines 5-16) of a new
\* LocationManager.  initDB is started and resolves later (InitDB).
OpenPage ==
    /\ ~pageOpen /\ sessions < MaxSessions
    /\ pageOpen' = TRUE
    /\ queue' = <<>>
    /\ isProcessing' = FALSE
    /\ retryCount' = 0
    /\ isOnline' = net
    /\ sessions' = sessions + 1
    /\ UNCHANGED <<dbOpen, adds, drains, clearing, envVars, nextId,
                   attempts, delivered, turnedAway, recs, waited, geoVars>>

---------------------------------------------------------------------------
\* (variant of WorkerOpenDB that resolves with the wrapper of the 'idb'
\* package)
WorkerOpenDBWrapped == "idb"

\* service-worker.js, openDB (lines 102-114): the worker's own helper
\* resolves with request.result, the platform's IDBDatabase object, not with
\* the wrapper of the 'idb' package that the page imports.
WorkerOpenDB == "IDBDatabase"

\* only the 'idb' wrapper has the get/put shortcut methods
HasShortcuts(handle) == handle = "idb"

\* getLocationQueue (lines 45-52): db.get(...) on the handle of openDB.
\* Calling a method the object does not have throws a TypeError.
GetLocationQueue(s) ==
    IF HasShortcuts(WorkerOpenDB)
    THEN [threw |-> FALSE, value |-> s]
    ELSE [threw |-> TRUE,  value |-> <<>>]

\* syncLocations (lines 25-42) on the snapshot s: the records it hands to
\* sendLocationToSupabase (lines 32-34), none when line 27 throws
SyncLocationsSends(s) ==
    IF GetLocationQueue(s).threw THEN <<>> ELSE GetLocationQueue(s).value

\* The host fires the 'sync' event for a pending registration once it sees
\* connectivity (lines 17-22) and runs syncLocations (lines 25-42).
\* getLocationQueue throws at line 27, the catch of line 39 logs, and the
\* promise handed to waitUntil resolves: the one-shot registration is used
\* up.  Lines 28-38 are not reached.  (They are: return on an empty list
\* (line 28); hand the records to sendLocationToSupabase in order, a
\* rejected send throwing out of the loop to the catch (lines 32-34, n is
\* the last record handed over and ok whether it was accepted); after the
\* loop, put [] under 'queue' (line 37).)
SyncEvent ==
    LET q == SyncLocationsSends(store)
    IN  /\ syncReg /\ net
        /\ syncReg' = FALSE
        /\ \E n \in 0..Len(q), ok \in BOOLEAN :
              /\ n = 0 <=> q = <<>>
              /\ n < Len(q) => ~ok
              /\ q = <<>> => ok
              /\ workerSent' = workerSent \o SubSeq(q, 1, n)
              /\ store' = IF q # <<>> /\ n = Len(q) /\ ok THEN <<>> ELSE store
        /\ UNCHANGED <<fgVars, net, histVars, geoVars>>

---------------------------------------------------------------------------
\* authService.js, GeolocationService

\* calculateDistance (lines 200-213): the haversine distance in metres,
\* which between two points of one meridian is the length of the arc
CalculateDistance(loc1, loc2) ==
    IF loc1.pos > loc2.pos THEN loc1.pos - loc2.pos ELSE loc2.pos - loc1.pos

\* shouldUpdateLocation (lines 191-198); last = this.lastLocation
ShouldUpdateLocation(last, newLocation) ==
    IF last = <<>>
    THEN TRUE
    ELSE CalculateDistance(last[1], newLocation) > MovementThreshold

\* (variant of HandlePositionSends that asks shouldUpdateLocation)
HandlePositionSendsIfMoved(last, location) ==
    ShouldUpdateLocation(last, location)

\* handlePosition, lines 180-181: the location is handed to addLocation
\* whatever this.lastLocation was before line 178 (last)
HandlePositionSends(last, location) == TRUE

\* (variant of NewLastLocation that keeps the first fix)
NewLastLocationFirstOnly(last, location) ==
    IF last = <<>> THEN <<location>> ELSE last

\* handlePosition, line 178
NewLastLocation(last, location) == <<location>>

\* (variant of ForcedLocation without the forced mark)
ForcedLocationUnmarked(last, t) == [last EXCEPT !.ts = t]

\* the setInterval callback of startForcedUpdates, lines 143-147:
\* {...this.lastLocation, timestamp: Date.now(), forced: true}
ForcedLocation(last, t) == [last EXCEPT !.ts = t, !.forced = TRUE]

\* LocationManager.js, startPeriodicUpdates (lines 139-149): a running
\* timer is cleared and a new one is armed
StartPeriodicUpdates ==
    /\ intervalId' = TRUE
    /\ UNCHANGED fgVars

\* (variant of StopPeriodicUpdates that also empties the queue)
StopPeriodicUpdatesDropsQueue ==
    /\ intervalId' = FALSE
    /\ queue' = <<>>
    /\ UNCHANGED <<pageOpen, isProcessing, retryCount, isOnline, dbOpen,
                   adds, drains, clearing>>

\* LocationManager.js, stopPeriodicUpdates (lines 151-156)
StopPeriodicUpdates ==
    /\ intervalId' = FALSE
    /\ UNCHANGED fgVars

\* startForcedUpdates (lines 133-158): a timer whose handle is held is
\* cleared, then a new one is set
StartForcedUpdates ==
    /\ forcedUpdateInterval' = TRUE
    /\ timers' = (IF forcedUpdateInterval THEN timers - 1 ELSE timers) + 1

\* (variant of StartTracking without the early return of lines 90-93)
StartTrackingAgain ==
    /\ pageOpen
    /\ isTracking' = TRUE
    /\ watchId' = TRUE
    /\ watches' = watches + 1
    /\ StartForcedUpdates
    /\ StartPeriodicUpdates
    /\ UNCHANGED <<envVars, histVars, lastLocation, now, fixes, provider,
                   updateInterval, uiVars>>

\* startTracking (lines 89-116)
StartTrackingCall ==
    /\ pageOpen
    /\ IF isTracking
       THEN UNCHANGED <<isTracking, watchId, forcedUpdateInterval,
                        intervalId, fgVars, watches, timers, updateInterval>>
       ELSE /\ isTracking' = TRUE
            /\ watchId' = TRUE
            /\ watches' = watches + 1
            /\ StartForcedUpdates
            /\ StartPeriodicUpdates
    /\ UNCHANGED <<envVars, histVars, lastLocation, now, fixes, provider,
                   updateInterval>>

\* startTracking called with the Transmitter's state left as it is
StartTracking == StartTrackingCall /\ UNCHANGED uiVars

\* stopForcedUpdates (lines 160-165)
StopForcedUpdates ==
    /\ forcedUpdateInterval' = FALSE
    /\ timers' = IF forcedUpdateInterval THEN timers - 1 ELSE timers

\* stopTracking, lines 119-122: the watch whose id is held is cleared
ClearWatch ==
    /\ watchId' = FALSE
    /\ watches' = IF watchId THEN watches - 1 ELSE watches

\* setUpdateInterval (lines 253-260): while tracking, stopForcedUpdates and
\* then startForcedUpdates, which finds no handle to clear
SetUpdateInterval ==
    /\ pageOpen
    /\ \E interval \in Intervals : updateInterval' = interval
    /\ IF isTracking
       THEN /\ forcedUpdateInterval' = TRUE
            /\ timers' = (IF forcedUpdateInterval THEN timers - 1
                                                  ELSE timers) + 1
       ELSE UNCHANGED <<forcedUpdateInterval, timers>>
    /\ UNCHANGED <<fgVars, envVars, histVars, isTracking, watchId,
                   lastLocation, now, fixes, intervalId, provider, watches,
                   uiVars>>

\* (variant of StopTracking that leaves the heartbeat timer running)
StopTrackingKeepsTimer ==
    /\ pageOpen
    /\ ClearWatch
    /\ isTracking' = FALSE
    /\ StopPeriodicUpdates
    /\ UNCHANGED <<forcedUpdateInterval, timers, envVars, histVars,
                   lastLocation, now, fixes, provider, updateInterval,
                   uiVars>>

\* stopTracking (lines 118-131)
StopTrackingCall ==
    /\ pageOpen
    /\ ClearWatch
    /\ StopForcedUpdates
    /\ isTracking' = FALSE
    /\ StopPeriodicUpdates
    /\ UNCHANGED <<envVars, histVars, lastLocation, now, fixes, provider,
                   updateInterval>>

\* stopTracking called with the Transmitter's state left as it is
StopTracking == StopTrackingCall /\ UNCHANGED uiVars

\* The watch delivers a fix at p: handlePosition (lines 167-189), then
\* addLocation up to its await.
HandlePosition ==
    \E p \in Positions :
        LET location == [pos |-> p, ts |-> now, forced |-> FALSE]
        IN  /\ pageOpen /\ watches > 0 /\ fixes < MaxFixes
            /\ provider # "denied"
            /\ provider' = "ok"
            /\ fixes' = fixes + 1
            /\ lastLocation' = NewLastLocation(lastLocation, location)
            /\ IF HandlePositionSends(lastLocation, location)
               THEN AddSample(MaxFixes + MaxTicks, location, now)
               ELSE UNCHANGED <<fgVars, envVars, histVars>>
            /\ UNCHANGED <<isTracking, watchId, forcedUpdateInterval, now,
                           intervalId, watches, timers, updateInterval,
                           uiVars>>

\* The heartbeat timer fires, one period after it was armed or fired last:
\* the callback of startForcedUpdates (lines 140-157), then addLocation up
\* to its await.
ForcedUpdate ==
    /\ pageOpen /\ timers > 0 /\ now < MaxTicks
    /\ now' = now + 1
    /\ IF isTracking /\ lastLocation # <<>>
       THEN AddSample(MaxFixes + MaxTicks,
                      ForcedLocation(lastLocation[1], now'), now')
       ELSE UNCHANGED <<fgVars, envVars, histVars>>
    /\ UNCHANGED <<isTracking, watchId, forcedUpdateInterval, lastLocation,
                   fixes, intervalId, provider, watches, timers,
                   updateInterval, uiVars>>

\* error.code values of the watch's error callback (lines 218-232)
ErrorCodes == {"denied", "unavailable", "timeout"}

\* (variant of HandleError that stops tracking on every error)
HandleErrorStopsTracking ==
    \E code \in ErrorCodes :
        /\ pageOpen /\ watches > 0
        /\ provider' = code
        /\ ClearWatch
        /\ StopForcedUpdates
        /\ isTracking' = FALSE
        /\ StopPeriodicUpdates
        /\ UNCHANGED <<envVars, histVars, lastLocation, now, fixes,
                       updateInterval, uiVars>>

\* The provider reports an error to the watch: handleError (lines 215-235)
\* picks a message and throws it out of the callback; no field is written.
HandleError ==
    \E code \in ErrorCodes :
        /\ pageOpen /\ watches > 0
        /\ provider' = code
        /\ UNCHANGED <<fgVars, envVars, histVars, isTracking, watchId,
                       forcedUpdateInterval, lastLocation, now, fixes,
                       intervalId, watches, timers, updateInterval,
                       uiVars>>

\* the user grants the permission again
Regrant ==
    /\ provider = "denied"
    /\ provider' = "ok"
    /\ UNCHANGED <<fgVars, envVars, histVars, isTracking, watchId,
                   forcedUpdateInterval, lastLocation, now, fixes,
                   intervalId, watches, timers, updateInterval, uiVars>>

---------------------------------------------------------------------------
\* components/Transmitter/index.js

\* startLocationTracking (lines 98-121) as a closure of the render in which
\* isTracking had the value tracking: line 99 returns when it is set,
\* otherwise startTracking is called and setIsTracking(true) follows
StartLocationTracking(tracking) ==
    IF tracking
    THEN UNCHANGED <<fgVars, envVars, histVars, isTracking, watchId,
                     forcedUpdateInterval, lastLocation, now, fixes,
                     intervalId, provider, watches, timers, updateInterval,
                     uiTracking>>
    ELSE StartTrackingCall /\ uiTracking' = TRUE

\* The permission is found granted (lines 48-51) or the user grants it
\* through requestPermission (lines 72-96): setHasPermission(true), then
\* startLocationTracking of the current render.
RequestPermission ==
    /\ pageOpen /\ ~hasPermission /\ provider # "denied"
    /\ hasPermission' = TRUE
    /\ StartLocationTracking(uiTracking)
    /\ UNCHANGED restarts

\* restartTracking (lines 130-139) up to the timeout: the button is
\* rendered when hasPermission is set (line 150); stopLocationTracking
\* (lines 123-128), then setTimeout with a callback that closes over the
\* hasPermission and the startLocationTracking of this render
RestartTracking ==
    /\ pageOpen /\ hasPermission
    /\ StopTrackingCall
    /\ uiTracking' = FALSE
    /\ restarts' = restarts \cup {[isTracking |-> uiTracking,
                                   hasPermission |-> hasPermission]}
    /\ UNCHANGED hasPermission

\* the 1000 ms timeout of restartTracking fires: lines 132-138
RestartTimeout ==
    \E c \in restarts :
        /\ pageOpen
        /\ restarts' = restarts \ {c}
        /\ hasPermission' = IF c.hasPermission THEN hasPermission ELSE TRUE
        /\ StartLocationTracking(c.isTracking)

\* One page load of the Transmitter: the permission is granted, the user
\* presses the restart button, fixes arrive and the heartbeat timer fires.
NextUI ==
    \/ RequestPermission
    \/ RestartTracking
    \/ RestartTimeout
    \/ HandlePosition
    \/ ForcedUpdate

SpecUI == Init /\ [][NextUI]_vars

---------------------------------------------------------------------------
\* One page load: everything the page, the network and the host can do
\* while the page stays open.  Tracking is started at some point: the
\* periodic timer runs from then on, and addLocation is called.
Next ==
    \/ StartTracking
    \/ InitDB
    \/ (isTracking /\ AddLocation(MaxRecords))
    \/ SaveRead
    \/ SaveWrite
    \/ SendDone
    \/ DelayDone
    \/ DrainSaveRead
    \/ DrainSaveWrite
    \/ OnlineEvent
    \/ OfflineEvent
    \/ Tick
    \/ ClearQueue
    \/ ClearWrite
    \/ SyncEvent

Spec == Init /\ [][Next]_vars

\* The same, with the page being closed and loaded again.
NextLife ==
    \/ Next
    \/ ClosePage
    \/ OpenPage

SpecLife == Init /\ [][NextLife]_vars

TypeOK ==
    /\ pageOpen \in BOOLEAN /\ isProcessing \in BOOLEAN
    /\ isOnline \in BOOLEAN /\ dbOpen \in BOOLEAN
    /\ net \in BOOLEAN /\ syncReg \in BOOLEAN
    /\ retryCount \in 0..MaxRetries
    /\ clearing \in 0..MaxClearing
    /\ Range(queue) \subseteq Ids /\ Range(store) \subseteq Ids
    /\ \A d \in drains : d.loc \in Ids
    /\ \A a \in adds : a.id \in Ids
    /\ sessions \in 1..MaxSessions
    /\ DOMAIN attempts = 1..(nextId - 1)
    /\ pageOpen => (isOnline = net)

---------------------------------------------------------------------------
\* Every record is enqueued while the page is offline; connectivity comes
\* and goes, and the drain runs as in Spec.
NextOfflineAdds ==
    \/ InitDB
    \/ (~isOnline /\ AddLocation(MaxRecords))
    \/ SaveRead
    \/ SaveWrite
    \/ SendDone
    \/ DelayDone
    \/ DrainSaveRead
    \/ DrainSaveWrite
    \/ OnlineEvent
    \/ OfflineEvent

SpecOfflineAdds == Init /\ [][NextOfflineAdds]_vars

\* A sustained offline period: records are enqueued one call after the
\* other, with nothing delivered, until the queue is past Capacity.
InitOffline == Init /\ ~net

NextOffline ==
    \/ InitDB
    \/ (adds = {} /\ AddLocation(Capacity + MaxOver))
    \/ SaveRead
    \/ SaveWrite

SpecOffline == InitOffline /\ [][NextOffline]_vars

\* The page stays offline, the store is open before the first call, and
\* addLocation is called again while earlier calls are still suspended.
NextOverlap ==
    \/ InitDB
    \/ (dbOpen /\ AddLocation(MaxOverlap))
    \/ SaveRead
    \/ SaveWrite

SpecOverlap == InitOffline /\ [][NextOverlap]_vars

\* The page stays offline with the store open: calls made one after the
\* other fill the snapshot to Capacity, then calls overlap.
NextAtCapacity ==
    \/ InitDB
    \/ /\ dbOpen
       /\ adds = {} \/ nextId > Capacity
       /\ AddLocation(Capacity + MaxOver + 1)
    \/ SaveRead
    \/ SaveWrite

SpecAtCapacity == InitOffline /\ [][NextAtCapacity]_vars

\* One page load with a durable store whose reads and writes can fail.
NextFaulty ==
    \/ InitDB
    \/ AddLocation(MaxRecords)
    \/ SaveRead
    \/ SaveWrite
    \/ SaveThrows
    \/ SendDone
    \/ DelayDone
    \/ DrainSaveRead
    \/ DrainSaveWrite
    \/ DrainSaveThrows
    \/ OnlineEvent
    \/ OfflineEvent

SpecFaulty == Init /\ [][NextFaulty]_vars

\* One page load of the tracker alone: tracking is started and stopped and
\* the heartbeat period is changed, in any order, while fixes arrive and
\* the heartbeat timer fires.
NextTrack ==
    \/ StartTracking
    \/ StopTracking
    \/ SetUpdateInterval
    \/ HandlePosition
    \/ ForcedUpdate

SpecTrack == Init /\ [][NextTrack]_vars

\* One page load in which clearQueue is called once every record has been
\* enqueued: no addLocation call follows a clearQueue call.
NextClear ==
    \/ InitDB
    \/ AddLocation(MaxRecords)
    \/ SaveRead
    \/ SaveWrite
    \/ SendDone
    \/ DelayDone
    \/ DrainSaveRead
    \/ DrainSaveWrite
    \/ (nextId > MaxRecords /\ ClearQueue)
    \/ ClearWrite

SpecClear == Init /\ [][NextClear]_vars

\* The same page load with the platform's promises settling: a request to
\* the sink resolves or rejects, the backoff timer fires, and a store
\* request of the loop succeeds or fails.
SpecFaultyFair ==
    /\ SpecFaulty
    /\ WF_vars(SendDone)
    /\ WF_vars(DelayDone)
    /\ WF_vars(DrainSaveRead)
    /\ WF_vars(DrainSaveWrite)

\* One page load with the tracker feeding the queue: tracking is started
\* and stopped, fixes arrive, the heartbeat timer fires, and the drain sends
\* what was enqueued.  initDB has not resolved: records are held in memory.
NextGeo ==
    \/ StartTracking
    \/ StopTracking
    \/ HandlePosition
    \/ ForcedUpdate
    \/ SendDone
    \/ DelayDone

SpecGeo == Init /\ [][NextGeo]_vars

\* The tracker with a provider that also reports errors, and a permission
\* that is taken away and granted again.
NextGeoErr ==
    \/ StartTracking
    \/ StopTracking
    \/ HandlePosition
    \/ ForcedUpdate
    \/ HandleError
    \/ Regrant

SpecGeoErr == Init /\ [][NextGeoErr]_vars

---------------------------------------------------------------------------
\* Properties

Enqueued == [i \in 1..(nextId - 1) |-> i]

\* C1: when every record was enqueued offline, then once the page is online
\* and the drain has run to its end with the queue empty, the sink has
\* accepted every record, in enqueue order.
C1_DrainsInOrder ==
    (nextId > 1 /\ isOnline /\ adds = {} /\ drains = {} /\ queue = <<>>)
        => delivered = Enqueued

\* C2: a send that fails never costs the record its place in the in-memory
\* queue: after the failure is handled the record is in the queue again,
\* whatever the value of the retry counter.
C2_NeverDiscarded ==
    [][\A d \in drains :
          (d.pc = "send" /\ pageOpen' /\ d \notin drains'
              /\ delivered' = delivered)
          => d.loc \in Range(queue')]_vars

\* C3: once the front record has failed MaxRetries times the drain halts:
\* the loop starts no further send.
C3_DrainHalts ==
    [][(\E d \in drains : d.pc = "delay" /\ attempts[d.loc] >= MaxRetries)
          => ~(\E d \in drains' : d.pc = "send")]_vars

\* C4: with a single record enqueued, its first and second failed send put
\* it back for another attempt, and when its third send succeeds the sink
\* has accepted it exactly once, the queue is empty and the drain is over;
\* nothing is sent for it afterwards.
C4_ThirdAttemptDelivers ==
    [][/\ (nextId = 2 /\ Sending(1) \in drains /\ attempts[1] \in {1, 2}
              /\ pageOpen' /\ delivered' = delivered
              /\ Sending(1) \notin drains')
          => (queue' # <<>> /\ Head(queue') = 1
                 /\ Delaying(1) \in drains'
                 /\ attempts'[1] = attempts[1])
       /\ (nextId = 2 /\ Sending(1) \in drains /\ attempts[1] = 3
              /\ delivered' # delivered)
          => (delivered' = <<1>> /\ queue' = <<>> /\ drains' = {}
                 /\ ~isProcessing')
       /\ (nextId = 2 /\ nextId' = 2 /\ delivered = <<1>>)
          => (delivered' = <<1>> /\ queue' = <<>> /\ drains' = {})
      ]_vars

\* the single record has failed twice and its third send is in flight with
\* the sink reachable
C4_Witness ==
    /\ nextId = 2 /\ attempts[1] = 3 /\ retryCount = 2
    /\ drains = {Sending(1)} /\ queue = <<>> /\ net

\* C5: the in-memory queue never holds more than Capacity records.
C5_QueueBounded == GetQueueLength <= Capacity

\* C6: at most one processQueue loop is between its start and its end, and
\* isProcessing is set exactly while there is one.
C6_AtMostOneDrain ==
    /\ Cardinality(drains) <= 1
    /\ isProcessing <=> (drains # {})

\* a processQueue call was turned away by the flag while the loop is
\* running with records waiting
C6_Witness ==
    turnedAway /\ Cardinality(drains) = 1 /\ Len(queue) > 0 /\ isOnline

\* C7: no drain holds a record whose addLocation is still waiting for its
\* durable-store write.
C7_PersistedBeforeTaken ==
    \A d \in drains : \A a \in adds : a.id # d.loc

\* C8: when initDB of a LocationManager completes, the in-memory queue
\* contains the records of the durable snapshot.
C8_Reconciled ==
    [][(pageOpen /\ ~dbOpen /\ dbOpen')
          => Range(store') \subseteq Range(queue')]_vars

\* C9: a record the sink accepted from the foreground drain is in neither
\* the in-memory queue nor the durable snapshot.
C9_DeliveredDestroyed ==
    \A r \in Range(delivered) :
        r \notin Range(queue) /\ r \notin Range(store)

\* C10: when the host fires the sync event with the page closed, the worker
\* sends every record of the durable snapshot to the sink.
C10_WorkerDelivers ==
    [][(~pageOpen /\ syncReg /\ ~syncReg')
          => Range(store) \subseteq Range(delivered')]_vars

\* C11: a background sync run over a non-empty snapshot starts as the
\* foreground drain does: the first thing it hands to the sink is the front
\* record of the snapshot.
C11_WorkerDrainsLikeForeground ==
    [][(syncReg /\ ~syncReg' /\ store # <<>>)
          => (Len(workerSent') > Len(workerSent)
                 /\ workerSent'[Len(workerSent) + 1] = Head(store))]_vars

\* the largest delay the retry limit lets line 95 compute
BackoffCap == BackoffDelay(MaxRetries)

\* C12: within one drain the backoff delay started after a failure is never
\* smaller than the one started after the failure before it, and no delay
\* exceeds the cap.
C12_BackoffMonotone ==
    \A n \in 1..Len(waited) :
        /\ waited[n] <= BackoffCap
        /\ n < Len(waited) => waited[n] <= waited[n + 1]

\* the drain waits after the MaxRetries-th failure in a row
C12_Witness ==
    /\ Len(waited) = MaxRetries
    /\ \E d \in drains : d.pc = "delay"

\* C13: while the page has seen the offline event and no online event
\* since, no send is started.
C13_NoSendWhileOffline ==
    [][(pageOpen /\ ~isOnline /\ ~isOnline')
          => \A r \in DOMAIN attempts : attempts'[r] <= attempts[r]]_vars

\* C14: the offline event leaves a 'location-sync' registration pending.
C14_OfflineArmsSync ==
    [][(pageOpen /\ net /\ ~net') => syncReg']_vars

\* C15: the online event leaves no 'location-sync' registration pending.
C15_OnlineCancelsSync ==
    [][(pageOpen /\ ~net /\ net') => ~syncReg']_vars

\* a drain is started on the front record of q
DrainStartedOn(q) ==
    /\ isProcessing'
    /\ queue' = Tail(q)
    /\ drains' = {Sending(Head(q))}

\* C16: with the page online, records waiting and no drain active, the
\* tick, the completion of any addLocation and (with the page offline until
\* then) the online event each start a drain on the front record; while
\* isOnline is false neither the tick nor an addLocation starts one.
C16_TriggersStartDrain ==
    /\ (pageOpen /\ isOnline /\ drains = {} /\ queue # <<>>)
          => /\ intervalId => ENABLED (Tick /\ DrainStartedOn(queue))
             /\ \A a \in adds :
                   a.pc = "put"
                      => ENABLED (SaveWrite /\ a \notin adds'
                                    /\ DrainStartedOn(queue))
    /\ (pageOpen /\ isOnline /\ drains = {} /\ ~dbOpen
            /\ nextId <= MaxRecords)
          => ENABLED (AddLocation(MaxRecords)
                        /\ DrainStartedOn(Append(queue, nextId)))
    /\ (pageOpen /\ ~net /\ drains = {} /\ queue # <<>>)
          => ENABLED (OnlineEvent /\ DrainStartedOn(queue))
    /\ ~isOnline
          => ~ENABLED ((Tick \/ SaveWrite \/ AddLocation(MaxRecords))
                         /\ drains' # drains)

\* the online event found a record enqueued offline and no drain active:
\* its first send is in flight
C16_Witness ==
    /\ isOnline /\ syncReg /\ nextId = 2 /\ adds = {}
    /\ drains = {Sending(1)} /\ attempts[1] = 1 /\ retryCount = 0

NewRecordQueued ==
    nextId \in Range(queue') \/ Sending(nextId) \in drains'

C19_EveryTickEnqueues ==
    [][(isTracking /\ now' = now + 1)
          => (nextId' = nextId + 1 /\ recs'[nextId].forced)]_vars

\* C19: every heartbeat tick while tracking is active and after a first
\* fix was received enqueues exactly one heartbeat record.
C19_TickAfterFixEnqueues ==
    [][(isTracking /\ lastLocation # <<>> /\ now' = now + 1)
          => /\ nextId' = nextId + 1
             /\ recs'[nextId].forced
             /\ NewRecordQueued]_vars

\* the first tick came before the first fix and enqueued nothing, the
\* second came after it and enqueued a heartbeat record
C19_Witness ==
    /\ now = 2 /\ Len(recs) = 2
    /\ ~recs[1].forced /\ recs[1].ts = 1
    /\ recs[2].forced /\ recs[2].ts = 2

\* C20: a heartbeat record has the coordinates of the latest live record,
\* and a timestamp greater than that of every heartbeat record before it.
C20_HeartbeatRepeatsLastFix ==
    [][(now' = now + 1 /\ nextId' = nextId + 1)
          => /\ \E i \in 1..Len(recs) :
                  /\ ~recs[i].forced
                  /\ \A j \in (i + 1)..Len(recs) : recs[j].forced
                  /\ recs'[nextId].pos = recs[i].pos
             /\ \A i \in 1..Len(recs) :
                  recs[i].forced => recs[i].ts < recs'[nextId].ts]_vars

\* two fixes at different places, then two heartbeat ticks in a row
C20_Witness ==
    /\ Len(recs) = 4
    /\ ~recs[1].forced /\ ~recs[2].forced /\ recs[1].pos # recs[2].pos
    /\ recs[3].forced /\ recs[4].forced
    /\ recs[3].pos = recs[2].pos /\ recs[4].pos = recs[2].pos
    /\ recs[3].ts < recs[4].ts

\* C21: while tracking is stopped the position watch and the heartbeat timer
\* are cancelled, no step enqueues a sample, and another stopTracking
\* changes nothing.
C21_StopCancelsAndIsIdempotent ==
    (pageOpen /\ ~isTracking)
        => /\ ~watchId /\ ~forcedUpdateInterval
           /\ ~ENABLED ((HandlePosition \/ ForcedUpdate)
                          /\ nextId' # nextId)
           /\ ~ENABLED (StopTracking /\ vars' # vars)

\* tracking was stopped after a fix, with fixes and ticks still to come
C21_Witness ==
    /\ ~isTracking /\ lastLocation # <<>> /\ nextId > 1
    /\ fixes < MaxFixes /\ now < MaxTicks

\* C22: stopTracking leaves the queue and a running processQueue loop as
\* they are, and with tracking stopped the loop still hands a record the
\* sink accepts over as delivered and still goes on to the next record.
C22_StopLeavesDrain ==
    /\ pageOpen
          => ~ENABLED (StopTracking
                         /\ <<queue, drains, isProcessing, retryCount>>'
                               # <<queue, drains, isProcessing, retryCount>>)
    /\ (pageOpen /\ ~isTracking)
          => \A d \in drains :
                /\ (d.pc = "send" /\ net)
                      => ENABLED (SendDone
                                    /\ delivered' = Append(delivered, d.loc))
                /\ (d.pc = "delay" /\ queue # <<>>)
                      => ENABLED (DelayDone
                                    /\ drains' = {Sending(Head(queue))})

\* tracking is stopped while the loop is retrying one record with another
\* waiting behind it
C22_Witness ==
    /\ ~isTracking /\ net /\ queue # <<>>
    /\ \E d \in drains : d.pc = "send" /\ attempts[d.loc] >= 2

\* C23: once the provider has reported PERMISSION_DENIED, tracking is
\* halted and no sample is enqueued while the permission stays denied.
C23_DeniedHaltsSampling ==
    [][provider' = "denied"
          => (~isTracking' /\ nextId' = nextId)]_vars

\* C24: a POSITION_UNAVAILABLE or TIMEOUT report changes nothing of the
\* tracker, and after it the next fix and the next heartbeat tick enqueue
\* a sample as before.
C24_TransientErrors ==
    /\ (pageOpen /\ watchId)
          => ~ENABLED (HandleError
                         /\ provider' \in {"unavailable", "timeout"}
                         /\ <<isTracking, watchId, forcedUpdateInterval,
                              lastLocation>>'
                               # <<isTracking, watchId, forcedUpdateInterval,
                                    lastLocation>>)
    /\ (pageOpen /\ isTracking /\ provider \in {"unavailable", "timeout"})
          => /\ watchId /\ forcedUpdateInterval
             /\ fixes < MaxFixes
                   => ENABLED (HandlePosition /\ nextId' = nextId + 1)
             /\ (now < MaxTicks /\ lastLocation # <<>>)
                   => ENABLED (ForcedUpdate /\ nextId' = nextId + 1)

\* a transient error was reported after a fix, with tracking still active
C24_Witness ==
    /\ provider \in {"unavailable", "timeout"}
    /\ isTracking /\ watchId /\ forcedUpdateInterval
    /\ lastLocation # <<>> /\ fixes < MaxFixes /\ now < MaxTicks

\* the step ends a suspended addLocation call
AddCompletes == \E a \in adds : \A b \in adds' : b.id # a.id

\* C25: whatever the durable store does, a record handed to addLocation is
\* in the in-memory queue (or already taken from it by the drain the call
\* triggered), and when the call completes it has called processQueue if the
\* page is online and registered the sync task if it is offline.
C25_AddNeverFails ==
    [][/\ nextId' = nextId + 1 => NewRecordQueued
       /\ ((pageOpen' /\ AddCompletes)
              \/ (~dbOpen /\ nextId' = nextId + 1))
             => IF isOnline
                THEN (drains' # {} \/ queue' = <<>>) /\ syncReg' = syncReg
                ELSE syncReg' /\ drains' = drains
      ]_vars

\* the store is open and holds nothing, and yet the one addLocation call
\* has completed offline: its record waits in memory, the sync task is
\* registered
C25_Witness ==
    /\ dbOpen /\ store = <<>> /\ ~isOnline
    /\ nextId = 2 /\ adds = {} /\ queue = <<1>> /\ syncReg

\* C26: once every addLocation call made with the store open has
\* completed, with nothing delivered and fewer than Capacity records, the
\* durable snapshot is the enqueued records in enqueue order.
C26_SnapshotMatchesQueue ==
    (dbOpen /\ adds = {} /\ delivered = <<>> /\ nextId - 1 < Capacity)
        => store = Enqueued

NoDuplicates(q) ==
    \A i \in 1..Len(q) : \A j \in 1..Len(q) : q[i] = q[j] => i = j

\* C27: neither the in-memory queue nor the durable snapshot holds a record
\* more than once.
C27_NoDuplicates == NoDuplicates(queue) /\ NoDuplicates(store)

\* C28: the records in the in-memory queue are in enqueue order.
C28_QueueInEnqueueOrder ==
    \A i \in 1..Len(queue) : \A j \in 1..Len(queue) :
        i < j => queue[i] < queue[j]

\* a record that failed is back at the head, ahead of a record enqueued
\* while it was being sent (that record's save is still under way), and the
\* loop is in its backoff delay
C28_Witness ==
    /\ queue = <<1, 2>> /\ attempts[1] >= 1 /\ Delaying(1) \in drains
    /\ isOnline /\ ~syncReg /\ \E a \in adds : a.id = 2

\* C29: retryCount goes down only in a step that ends the drain with the
\* queue empty, a delivery after which the loop goes on leaves it as it
\* is, and it is 0 whenever no drain is active.
C29_RetryCountReset ==
    [][/\ (pageOpen' /\ retryCount' < retryCount)
             => (drains' = {} /\ queue' = <<>> /\ ~isProcessing')
       /\ (delivered' # delivered /\ drains' # {})
             => retryCount' = retryCount
       /\ drains' = {} => retryCount' = 0
      ]_vars

\* the first record failed once and was then delivered; the loop is sending
\* the second with the counter still at 1
C29_Witness ==
    /\ delivered = <<1>> /\ drains = {Sending(2)} /\ retryCount = 1

\* sendLocation, lines 109-116: the row the foreground inserts; the
\* timestamp goes through new Date(...).toISOString(), and user_id is the
\* one addLocation put on the record (line 45)
SendLocation(location) ==
    [pos |-> location.pos,
     timestamp |-> [kind |-> "iso", at |-> location.ts],
     user_id |-> "anonymous"]

\* service-worker.js, sendLocationToSupabase, lines 86-92: the body the
\* worker posts; the timestamp is the stored epoch number as it is
SendLocationToSupabase(location) ==
    [pos |-> location.pos,
     timestamp |-> [kind |-> "number", at |-> location.ts],
     user_id |-> "anonymous"]

\* C30: for every record in the durable snapshot, the row the foreground
\* sends and the body the worker sends have the same position, the same
\* producer id, and an ISO-8601 string timestamp of the same instant.
C30_SamePayloadShape ==
    \A i \in 1..Len(store) :
        LET fg == SendLocation(recs[store[i]])
            sw == SendLocationToSupabase(recs[store[i]])
        IN  /\ fg.pos = sw.pos
            /\ fg.user_id = sw.user_id
            /\ fg.timestamp.kind = "iso" /\ sw.timestamp.kind = "iso"
            /\ fg.timestamp.at = sw.timestamp.at

\* C31: a fix is enqueued only when it lies more than the movement
\* threshold from the location held before it (the first fix always is);
\* a fix within the threshold enqueues nothing.
C31_MovementGate ==
    [][(isTracking /\ fixes' = fixes + 1)
          => (nextId' = nextId + 1
                <=> ShouldUpdateLocation(lastLocation, lastLocation'[1]))]_vars

\* the ids of the most recent Capacity records of the first n enqueued
LatestIds(n) == {i \in 1..n : n - i < Capacity}

\* C32: the durable snapshot never holds more than Capacity records, and
\* once every call made with the store open has completed it holds the
\* most recent Capacity records that were appended, each once (the oldest
\* are the ones dropped).
C32_SnapshotIsLatestHundred ==
    /\ Len(store) <= Capacity
    /\ (dbOpen /\ adds = {})
          => /\ Range(store) = LatestIds(nextId - 1)
             /\ Len(store) = Cardinality(LatestIds(nextId - 1))

\* C33: a run of the worker's sync on a non-empty snapshot hands the
\* records to the sink in stored order up to the first one that fails:
\* with a failure the snapshot is left as it is, and the snapshot is set to
\* empty only when every record of it was sent.
C33_WorkerAllOrNothing ==
    [][(syncReg /\ ~syncReg' /\ store # <<>>)
          => \E n \in 1..Len(store) :
                /\ workerSent' = workerSent \o SubSeq(store, 1, n)
                /\ \/ store' = store
                   \/ n = Len(store) /\ store' = <<>>]_vars

C36_BudgetPerRecord ==
    [][\A d \in drains :
          (/\ d.pc = "send" /\ d \notin drains'
           /\ delivered' = delivered
           /\ Delaying(d.loc) \notin drains')
             => attempts[d.loc] >= MaxRetries + 1]_vars

\* C37: isProcessing is set only while a processQueue loop is between its
\* start and its end, and every loop that started ends with isProcessing
\* unset, also when every send fails.
C37_DrainTerminates ==
    /\ [](isProcessing <=> drains # {})
    /\ isProcessing ~> (~isProcessing /\ drains = {})

\* a drain ended although no send was accepted: its record failed every
\* attempt and was given up
C37_Witness ==
    /\ nextId = 2 /\ adds = {} /\ queue = <<>> /\ delivered = <<>>
    /\ drains = {} /\ ~isProcessing /\ retryCount = 0

\* C38: when a clearQueue call completes (its db.put of the empty snapshot
\* resolves) and no addLocation was called since it started, the in-memory
\* queue and the durable snapshot are both empty.
C38_ClearedIsEmpty ==
    [][clearing' < clearing
          => (GetQueueLength' = 0 /\ store' = <<>>)]_vars

\* C39: while the page is open at most one position watch and at most one
\* heartbeat timer are registered, each is registered exactly when
\* isTracking is set, and startTracking while tracking changes nothing.
C39_OneWatchOneTimer ==
    pageOpen =>
        /\ watches <= 1 /\ timers <= 1
        /\ isTracking <=> watches = 1
        /\ isTracking <=> timers = 1
        /\ isTracking => ~ENABLED (StartTracking /\ vars' # vars)

\* tracking is active with the heartbeat period changed from its default,
\* after fixes and ticks: one watch, one timer
C39_Witness ==
    /\ isTracking /\ watches = 1 /\ timers = 1
    /\ updateInterval # DefaultUpdateInterval
    /\ fixes > 0 /\ now > 0

\* C40: when the timeout of a restartTracking call fires that was made with
\* tracking active and the permission granted, tracking is active again in
\* the GeolocationService: the watch and the heartbeat timer are running.
C40_RestartRestarts ==
    [][\A c \in restarts :
          (c \notin restarts' /\ c.isTracking /\ c.hasPermission)
             => (isTracking' /\ watches' = 1 /\ timers' = 1)]_vars

====
